---- MODULE Spec2Model ----
(***************************************************************************)
(* Model of cellprofiler_core/utilities/java.py: the classpath assembler   *)
(* get_jars, the logging-config locator find_logback_xml, and the JVM      *)
(* lifecycle operations start_java and stop_java, run by the threads of a  *)
(* host application against the javabridge.                                *)
(*                                                                         *)
(* Python strings are sequences of one-character strings, so that split,   *)
(* replace, indexing, lower and endswith are computed as the code does.    *)
(* An optional value (None or a value v) is the sequence <<>> or <<v>>.    *)
(***************************************************************************)
EXTENDS Integers, Sequences, FiniteSets, TLC

VARIABLES
    platform,       \* sys.platform
    frozen,         \* hasattr(sys, "frozen")
    environ,        \* os.environ: a function from variable names to strings
    module_file,    \* __file__ of java.py
    prokaryote_dir, \* os.path.dirname(prokaryote.__file__)
    listdir,        \* os.listdir(prokaryote_dir): a sequence of file names
    jdk_path,       \* what javabridge.locate.find_jdk() returns (optional)
    isfile,         \* the set of paths for which os.path.isfile is true
    awt_headless,   \* cellprofiler_core.preferences.get_awt_headless()
    JAVA_STARTED,   \* the module's global flag
    vm_active,      \* get_vm().is_active()
    pc,             \* per thread: the statement the thread is at
    locals,         \* per thread: logback_path, args, class_path of start_java
    log,            \* per thread: its invocations and the bridge calls each made
    ret             \* the value returned by the last call of a pure function

hostVars == <<platform, frozen, environ, module_file, prokaryote_dir, listdir,
              jdk_path, isfile, awt_headless>>
procVars == <<JAVA_STARTED, vm_active, pc, locals, log>>
vars == <<platform, frozen, environ, module_file, prokaryote_dir, listdir,
          jdk_path, isfile, awt_headless, JAVA_STARTED, vm_active, pc, locals,
          log, ret>>

(***************************************************************************)
(* Bounds of the model.                                                    *)
(***************************************************************************)
\* Longest CLASSPATH value drawn, in characters.
MaxLen == 3
\* Most entries os.listdir returns for the bundled-archive directory.
MaxFiles == 2
\* Most start_java/stop_java invocations the host makes in one run.
MaxCalls == 3

(***************************************************************************)
(* Python string and os.path operations used by the module.                *)
(***************************************************************************)
None == <<>>
Some(v) == <<v>>

Last(s) == s[Len(s)]

\* s.startswith(p)
StartsWith(s, p) == Len(s) >= Len(p) /\ SubSeq(s, 1, Len(p)) = p

\* s.endswith(p)
EndsWith(s, p) ==
    Len(s) >= Len(p) /\ SubSeq(s, Len(s) - Len(p) + 1, Len(s)) = p

UpperCase == <<"A", "B", "C", "D", "E", "F", "G", "H", "I", "J", "K", "L", "M",
               "N", "O", "P", "Q", "R", "S", "T", "U", "V", "W", "X", "Y", "Z">>
LowerCase == <<"a", "b", "c", "d", "e", "f", "g", "h", "i", "j", "k", "l", "m",
               "n", "o", "p", "q", "r", "s", "t", "u", "v", "w", "x", "y", "z">>

LowerChar(c) ==
    IF \E i \in 1..26 : UpperCase[i] = c
    THEN LowerCase[CHOOSE i \in 1..26 : UpperCase[i] = c]
    ELSE c

\* s.lower()
Lower(s) == [i \in 1..Len(s) |-> LowerChar(s[i])]

\* s.replace(a, b) for one-character a and b
Replace(s, a, b) == [i \in 1..Len(s) |-> IF s[i] = a THEN b ELSE s[i]]

\* s.split(c) for a one-character c: empty segments are kept, and the
\* empty string splits into one empty segment.
RECURSIVE Split(_, _)
Split(s, c) ==
    IF \A i \in 1..Len(s) : s[i] # c
    THEN <<s>>
    ELSE LET k == CHOOSE i \in 1..Len(s) :
                      s[i] = c /\ \A j \in 1..(i - 1) : s[j] # c
         IN  <<SubSeq(s, 1, k - 1)>> \o Split(SubSeq(s, k + 1, Len(s)), c)

\* sys.platform.startswith("win")
IsWin == StartsWith(platform, <<"w", "i", "n">>)

\* os.path is ntpath exactly when sys.platform is "win32".
IsNT == platform = <<"w", "i", "n", "3", "2">>

\* os.pathsep, os.sep and the separators os.path accepts
pathsep == IF IsNT THEN ";" ELSE ":"
sep == IF IsNT THEN "\\" ELSE "/"
seps == IF IsNT THEN {"\\", "/"} ELSE {"/"}

\* ntpath.splitdrive for paths with a drive letter or none (no UNC share)
DriveLen(p) == IF IsNT /\ Len(p) >= 2 /\ p[2] = ":" THEN 2 ELSE 0

\* Operators take their arguments by name; Value(S) is the element of the
\* singleton S, used to evaluate an argument once.
Value(S) == CHOOSE v \in S : TRUE

\* os.path.join(a, b) for a relative b without a drive
join(a, b) ==
    Value({ LET rest == SubSeq(x, DriveLen(x) + 1, Len(x))
            IN  IF rest = <<>> \/ Last(rest) \in seps
                THEN x \o b
                ELSE x \o <<sep>> \o b : x \in {a} })

RECURSIVE RStripSeps(_)
RStripSeps(s) ==
    IF s # <<>> /\ Last(s) \in seps
    THEN RStripSeps(SubSeq(s, 1, Len(s) - 1))
    ELSE s

\* os.path.dirname(p)
dirname(p) ==
    Value({ LET d == DriveLen(x)
                drive == SubSeq(x, 1, d)
                rest == SubSeq(x, d + 1, Len(x))
                cut == IF \E i \in 1..Len(rest) : rest[i] \in seps
                       THEN CHOOSE i \in 1..Len(rest) :
                                rest[i] \in seps
                                /\ \A j \in (i + 1)..Len(rest) : rest[j] \notin seps
                       ELSE 0
                head == SubSeq(rest, 1, cut)
            IN  drive \o (IF RStripSeps(head) = <<>>
                          THEN head
                          ELSE RStripSeps(head)) : x \in {p} })

(***************************************************************************)
(* get_jars                                                                *)
(***************************************************************************)
\* javabridge.JARS: the bridge's own archives, in its fixed order.
JARS == << <<"r", "h", "i", "n", "o", ".", "j", "a", "r">>,
           <<"r", "q", ".", "j", "a", "r">> >>

dot_jar == <<".", "j", "a", "r">>
lib == <<"l", "i", "b">>
tools_jar_name == <<"t", "o", "o", "l", "s", ".", "j", "a", "r">>

\* The CLASSPATH segments (lines 27-33).
env_class_path ==
    IF "CLASSPATH" \in DOMAIN environ
    THEN Split(environ["CLASSPATH"], pathsep)
    ELSE <<>>

\* The bundled archives of the directory scan (lines 35-41).
RECURSIVE jar_files_of(_)
jar_files_of(names) ==
    IF names = <<>>
    THEN <<>>
    ELSE (IF EndsWith(Lower(Head(names)), dot_jar)
          THEN <<join(prokaryote_dir, Head(names))>>
          ELSE <<>>) \o jar_files_of(Tail(names))

jar_files == jar_files_of(listdir)

\* Faulty variant: tools.jar is looked for in a frozen binary as well.
tools_jar_ignoring_frozen ==
    IF IsWin
    THEN IF jdk_path # None
         THEN <<join(join(jdk_path[1], lib), tools_jar_name)>>
         ELSE <<>>
    ELSE <<>>

\* How many times get_jars calls find_jdk (lines 45-49).
find_jdk_calls == IF IsWin /\ ~frozen THEN 1 ELSE 0

\* The tools.jar entry (lines 45-54): a sequence of no or one entry.
tools_jar ==
    IF IsWin /\ ~frozen
    THEN IF jdk_path # None
         THEN <<join(join(jdk_path[1], lib), tools_jar_name)>>
         ELSE <<>>
    ELSE <<>>

\* Faulty variants of get_jars: the CLASSPATH segments appended after the
\* archives; the bundled archives put before the bridge's.
get_jars_env_last == JARS \o jar_files \o env_class_path \o tools_jar
get_jars_bundled_first == env_class_path \o jar_files \o JARS \o tools_jar

\* Faulty variant: an entry already in the list is not added again.
RECURSIVE Dedup(_)
Dedup(l) ==
    IF l = <<>>
    THEN <<>>
    ELSE \* the list without its last entry, deduplicated
         LET d == Dedup(SubSeq(l, 1, Len(l) - 1))
         IN  IF \E i \in 1..Len(d) : d[i] = Last(l) THEN d ELSE Append(d, Last(l))

get_jars_dedup == Dedup(env_class_path \o JARS \o jar_files \o tools_jar)

get_jars == env_class_path \o JARS \o jar_files \o tools_jar

(***************************************************************************)
(* find_logback_xml                                                        *)
(***************************************************************************)
curdir == <<".">>
logback_xml == <<"l", "o", "g", "b", "a", "c", "k", ".", "x", "m", "l">>

\* The three directories searched, in order (lines 64-74).
paths ==
    << curdir,
       dirname(module_file),
       join(join(join(join(dirname(dirname(dirname(module_file))),
                           <<"j", "a", "v", "a">>),
                      <<"s", "r", "c">>),
                 <<"m", "a", "i", "n">>),
            <<"r", "e", "s", "o", "u", "r", "c", "e", "s">>) >>

target(i) == join(paths[i], logback_xml)

\* Faulty variant: the last target that is a file is returned.
find_logback_xml_last_match ==
    IF \E i \in 1..Len(paths) : target(i) \in isfile
    THEN Some(target(CHOOSE i \in 1..Len(paths) :
                         target(i) \in isfile
                         /\ \A j \in (i + 1)..Len(paths) : target(j) \notin isfile))
    ELSE None

\* Lines 75-78: the first target that is a file, or None.
find_logback_xml ==
    IF \E i \in 1..Len(paths) : target(i) \in isfile
    THEN Some(target(CHOOSE i \in 1..Len(paths) :
                         target(i) \in isfile
                         /\ \A j \in 1..(i - 1) : target(j) \notin isfile))
    ELSE None

(***************************************************************************)
(* The argument vector of a cold start (start_java, lines 96-125).         *)
(* Arguments are TLA+ strings: Str concatenates the characters of a path.  *)
(***************************************************************************)
RECURSIVE Str(_)
Str(s) == IF s = <<>> THEN "" ELSE Head(s) \o Str(Tail(s))

\* Faulty variants of the rewriting: the drive prefix left in place; the
\* platform not looked at.
rewrite_logback_path_keeping_drive(p) ==
    IF IsWin THEN Replace(p, "\\", "/") ELSE p

rewrite_logback_path_everywhere(p) ==
    LET q == Replace(p, "\\", "/")
    IN  IF q[2] = ":"
        THEN <<"/", "/", "l", "o", "c", "a", "l", "h", "o", "s", "t", "/">>
             \o <<q[1]>> \o <<"$">> \o SubSeq(q, 3, Len(q))
        ELSE q

\* Lines 105-109: the rewriting of the logging-config path.
rewrite_logback_path(p) ==
    IF IsWin
    THEN LET q == Replace(p, "\\", "/")
         IN  IF q[2] = ":"
             THEN <<"/", "/", "l", "o", "c", "a", "l", "h", "o", "s", "t", "/">>
                  \o <<q[1]>> \o <<"$">> \o SubSeq(q, 3, Len(q))
             ELSE q
    ELSE p

\* Lines 102-109: the local logback_path, rewritten in place on Windows.
logback_path ==
    IF find_logback_xml # None
    THEN Some(rewrite_logback_path(find_logback_xml[1]))
    ELSE None

\* Line 110
logback_args ==
    IF logback_path # None
    THEN <<"-Dlogback.configurationFile=" \o Str(logback_path[1])>>
    ELSE <<>>

\* Lines 113-116
headless_args ==
    IF awt_headless THEN <<"-Djava.awt.headless=true">> ELSE <<>>

\* Lines 118-125
jdwp_args ==
    IF "CP_JDWP_PORT" \in DOMAIN environ
    THEN <<"-agentlib:jdwp=transport=dt_socket,address=127.0.0.1:"
           \o Str(environ["CP_JDWP_PORT"]) \o ",server=y,suspend=n">>
    ELSE <<>>

\* Faulty variant of build_args: the headless flag appended before the
\* logging-config flag.
build_args_headless_first ==
    << "-Dloci.bioformats.loaded=true",
       "-Djava.util.prefs.PreferencesFactory="
       \o "org.cellprofiler.headlesspreferences.HeadlessPreferencesFactory" >>
    \o headless_args \o logback_args \o jdwp_args

\* Lines 96-125: the args list passed to javabridge.start_vm.
build_args ==
    << "-Dloci.bioformats.loaded=true",
       "-Djava.util.prefs.PreferencesFactory="
       \o "org.cellprofiler.headlesspreferences.HeadlessPreferencesFactory" >>
    \o logback_args \o headless_args \o jdwp_args

(***************************************************************************)
(* The host: the inputs the module reads and never writes.                 *)
(***************************************************************************)
win32 == <<"w", "i", "n", "3", "2">>
linux == <<"l", "i", "n", "u", "x">>
darwin == <<"d", "a", "r", "w", "i", "n">>
Platforms == {win32, linux, darwin}

\* All strings over alphabet A of length at most n.
RECURSIVE Strings(_, _)
Strings(A, n) ==
    IF n = 0
    THEN {<<>>}
    ELSE LET S == Strings(A, n - 1)
         IN  S \cup {Append(s, c) : s \in {x \in S : Len(x) = n - 1}, c \in A}

\* File names a directory listing may hold.
FileNames == { <<"a", ".", "j", "a", "r">>,
               <<"B", ".", "J", "A", "R">>,
               <<"j", "a", "r">> }

\* __file__ of java.py, per path flavour: absolute, and relative to the
\* current directory (on POSIX, below a directory named "u:").
ModuleFiles(p) ==
    IF p = win32
    THEN { <<"C", ":", "\\", "x", "\\", "j", "a", "v", "a", ".", "p", "y">>,
           <<"u", "\\", "j", "a", "v", "a", ".", "p", "y">> }
    ELSE { <<"/", "x", "/", "j", "a", "v", "a", ".", "p", "y">>,
           <<"u", ":", "/", "j", "a", "v", "a", ".", "p", "y">> }

ProkaryoteDir(p) ==
    IF p = win32 THEN <<"C", ":", "\\", "p">> ELSE <<"/", "p">>

JdkDir(p) ==
    IF p = win32 THEN <<"C", ":", "\\", "j", "d", "k">> ELSE <<"/", "j", "d", "k">>

Port == <<"5", "0", "0", "5">>

\* os.environ with the two variables the module reads set or unset.
Environ(cp, port) ==
    [n \in (IF cp = None THEN {} ELSE {"CLASSPATH"})
           \cup (IF port = None THEN {} ELSE {"CP_JDWP_PORT"}) |->
        IF n = "CLASSPATH" THEN cp[1] ELSE port[1]]

\* The state before any call: nothing started, every thread outside the module.
Threads == {"t1", "t2"}

NoLocals == [logback_path |-> None, args |-> <<>>, class_path |-> <<>>]

InitProc ==
    /\ JAVA_STARTED = FALSE
    /\ vm_active = FALSE
    /\ pc = [t \in Threads |-> "idle"]
    /\ locals = [t \in Threads |-> NoLocals]
    /\ log = [t \in Threads |-> <<>>]
    /\ ret = None

\* Hosts for the lifecycle: a Windows source checkout with a logging config
\* beside the module, and a frozen Linux build without one.
Init ==
    /\ platform \in {win32, linux}
    /\ frozen = (platform = linux)
    /\ environ = IF platform = win32
                 THEN Environ(Some(<<"a", ";", "b">>), Some(Port))
                 ELSE Environ(None, None)
    /\ module_file \in {m \in ModuleFiles(platform) : m[1] \in {"C", "/"}}
    /\ prokaryote_dir = ProkaryoteDir(platform)
    /\ listdir = << <<"a", ".", "j", "a", "r">> >>
    /\ jdk_path = None
    /\ isfile = IF platform = win32 THEN {target(2)} ELSE {}
    /\ awt_headless = (platform = win32)
    /\ InitProc

\* Hosts for get_jars: every CLASSPATH value within the bounds and one that
\* names an archive of the bridge, every directory listing, platform, frozen
\* status and find_jdk result.
InitJars ==
    /\ platform \in Platforms
    /\ frozen \in BOOLEAN
    /\ \E cp \in {None, Some(JARS[2])}
                  \cup {Some(s) : s \in Strings({"a", ":", ";"}, MaxLen)} :
           environ = Environ(cp, None)
    /\ module_file \in {m \in ModuleFiles(platform) : m[1] \in {"C", "/"}}
    /\ prokaryote_dir = ProkaryoteDir(platform)
    /\ listdir \in UNION {[1..n -> FileNames] : n \in 0..MaxFiles}
    /\ jdk_path \in {None, Some(JdkDir(platform))}
    /\ isfile = {}
    /\ awt_headless = FALSE
    /\ InitProc

\* Hosts for the argument vector: every platform, frozen status, module
\* location, set of existing logging configs, headless and debug-port setting.
InitArgs ==
    /\ platform \in Platforms
    /\ frozen \in BOOLEAN
    /\ \E port \in {None, Some(Port)} : environ = Environ(None, port)
    /\ module_file \in ModuleFiles(platform)
    /\ prokaryote_dir = ProkaryoteDir(platform)
    /\ listdir = <<>>
    /\ jdk_path = None
    /\ isfile \in SUBSET {target(i) : i \in 1..3}
    /\ awt_headless \in BOOLEAN
    /\ InitProc

\* __file__ of java.py three directories below the root.
DeepModuleFiles(p) ==
    IF p = win32
    THEN { <<"C", ":", "\\", "a", "\\", "b", "\\", "c", "\\",
             "j", "a", "v", "a", ".", "p", "y">> }
    ELSE { <<"/", "a", "/", "b", "/", "c", "/",
             "j", "a", "v", "a", ".", "p", "y">> }

\* Hosts for find_logback_xml: every platform, frozen status, module
\* location and set of existing logging configs.
InitLogback ==
    /\ platform \in Platforms
    /\ frozen \in BOOLEAN
    /\ environ = Environ(None, None)
    /\ module_file \in ModuleFiles(platform) \cup DeepModuleFiles(platform)
    /\ prokaryote_dir = ProkaryoteDir(platform)
    /\ listdir = <<>>
    /\ jdk_path = None
    /\ isfile \in SUBSET {target(i) : i \in 1..3}
    /\ awt_headless = FALSE
    /\ InitProc

(***************************************************************************)
(* The log: per thread, one record for each invocation it began, with the  *)
(* value is_active returned to it (start_java only) and the calls it made, *)
(* each with whether it returned (ok) or raised.                           *)
(***************************************************************************)
Invocation(op, active) ==
    [op |-> op, active |-> active, calls |-> <<>>, result |-> "running"]

Call(f, ok, a) == [f |-> f, ok |-> ok, a |-> a]

\* The number of invocations begun so far, by all threads.
RECURSIVE BegunIn(_)
BegunIn(T) ==
    IF T = {}
    THEN 0
    ELSE LET t == CHOOSE x \in T : TRUE
         IN  Len(log[t]) + BegunIn(T \ {t})

Begun == BegunIn(Threads)

\* The log after thread t's running invocation made call c.
Logged(t, c) ==
    [log EXCEPT ![t][Len(log[t])].calls = Append(@, c)]

\* The log after thread t's running invocation also ended with result r.
Ended(l, t, r) ==
    [l EXCEPT ![t][Len(l[t])].result = r]

(***************************************************************************)
(* start_java                                                              *)
(***************************************************************************)
\* Faulty variant: the activity check is ignored and the bridge is started
\* again.
start_java_is_active_always_cold(t) ==
    /\ pc[t] = "idle"
    /\ Begun < MaxCalls
    /\ log' = [log EXCEPT ![t] =
                  Append(@, Invocation("start_java", Some(vm_active)))]
    /\ pc' = [pc EXCEPT ![t] = "build"]
    /\ UNCHANGED <<hostVars, JAVA_STARTED, vm_active, locals, ret>>

\* Lines 91-92: the activity check.
start_java_is_active(t) ==
    /\ pc[t] = "idle"
    /\ Begun < MaxCalls
    /\ log' = [log EXCEPT ![t] =
                  Append(@, Invocation("start_java", Some(vm_active)))]
    /\ pc' = [pc EXCEPT ![t] = IF vm_active THEN "attach_running" ELSE "build"]
    /\ UNCHANGED <<hostVars, JAVA_STARTED, vm_active, locals, ret>>

\* Faulty variant: returns without attaching the calling thread.
start_java_return_running(t) ==
    /\ pc[t] = "attach_running"
    /\ log' = Ended(log, t, "returned")
    /\ pc' = [pc EXCEPT ![t] = "idle"]
    /\ UNCHANGED <<hostVars, JAVA_STARTED, vm_active, locals, ret>>

\* Lines 93-94: the bridge is active; attach the calling thread and return.
start_java_attach_running(t) ==
    /\ pc[t] = "attach_running"
    /\ \E ok \in BOOLEAN :
           log' = Ended(Logged(t, Call("attach", ok, <<>>)), t,
                        IF ok THEN "returned" ELSE "raised")
    /\ pc' = [pc EXCEPT ![t] = "idle"]
    /\ UNCHANGED <<hostVars, JAVA_STARTED, vm_active, locals, ret>>

\* Lines 95-125: the argument vector and the class path.
start_java_build(t) ==
    /\ pc[t] = "build"
    /\ locals' = [locals EXCEPT ![t] =
                     [logback_path |-> logback_path,
                      args |-> build_args,
                      class_path |-> get_jars]]
    /\ pc' = [pc EXCEPT ![t] = "start_vm"]
    /\ UNCHANGED <<hostVars, JAVA_STARTED, vm_active, log, ret>>

\* Faulty variant: the flag is set before start_vm is called.
start_java_start_vm_flag_first(t) ==
    /\ pc[t] = "start_vm"
    /\ JAVA_STARTED' = TRUE
    /\ \E ok \in BOOLEAN :
           /\ log' = LET l == Logged(t, Call("start_vm", ok,
                                   <<locals[t].args, locals[t].class_path>>))
                     IN  IF ok THEN l ELSE Ended(l, t, "raised")
           /\ vm_active' = (vm_active \/ ok)
           /\ pc' = [pc EXCEPT ![t] = IF ok THEN "attach" ELSE "idle"]
           /\ locals' = IF ok THEN locals ELSE [locals EXCEPT ![t] = NoLocals]
    /\ UNCHANGED <<hostVars, ret>>

\* Faulty variant: a failure of start_vm is swallowed and the cold start
\* goes on.
start_java_start_vm_swallowing(t) ==
    /\ pc[t] = "start_vm"
    /\ \E ok \in BOOLEAN :
           /\ log' = Logged(t, Call("start_vm", ok,
                                    <<locals[t].args, locals[t].class_path>>))
           /\ vm_active' = (vm_active \/ ok)
    /\ pc' = [pc EXCEPT ![t] = "attach"]
    /\ UNCHANGED <<hostVars, JAVA_STARTED, locals, ret>>

\* Line 126: javabridge.start_vm(args, class_path) returns or raises.
start_java_start_vm(t) ==
    /\ pc[t] = "start_vm"
    /\ \E ok \in BOOLEAN :
           /\ log' = LET l == Logged(t, Call("start_vm", ok,
                                   <<locals[t].args, locals[t].class_path>>))
                     IN  IF ok THEN l ELSE Ended(l, t, "raised")
           /\ vm_active' = (vm_active \/ ok)
           /\ pc' = [pc EXCEPT ![t] = IF ok THEN "attach" ELSE "idle"]
           /\ locals' = IF ok THEN locals ELSE [locals EXCEPT ![t] = NoLocals]
    /\ UNCHANGED <<hostVars, JAVA_STARTED, ret>>

\* Faulty variant: the cold start does not attach the starting thread.
start_java_skip_attach(t) ==
    /\ pc[t] = "attach"
    /\ pc' = [pc EXCEPT ![t] = "cache"]
    /\ UNCHANGED <<hostVars, JAVA_STARTED, vm_active, locals, log, ret>>

\* Faulty variant: a failed attach is followed by a kill_vm call that rolls
\* the start back.
start_java_attach_rollback(t) ==
    /\ pc[t] = "attach"
    /\ \E ok \in BOOLEAN :
           /\ log' = LET l == Logged(t, Call("attach", ok, <<>>))
                     IN  IF ok
                         THEN l
                         ELSE Ended([l EXCEPT ![t][Len(l[t])].calls =
                                        Append(@, Call("kill_vm", TRUE, <<>>))],
                                    t, "raised")
           /\ vm_active' = (vm_active /\ ok)
           /\ pc' = [pc EXCEPT ![t] = IF ok THEN "cache" ELSE "idle"]
           /\ locals' = IF ok THEN locals ELSE [locals EXCEPT ![t] = NoLocals]
    /\ UNCHANGED <<hostVars, JAVA_STARTED, ret>>

\* Line 130: attach the starting thread.
start_java_attach(t) ==
    /\ pc[t] = "attach"
    /\ \E ok \in BOOLEAN :
           /\ log' = LET l == Logged(t, Call("attach", ok, <<>>))
                     IN  IF ok THEN l ELSE Ended(l, t, "raised")
           /\ pc' = [pc EXCEPT ![t] = IF ok THEN "cache" ELSE "idle"]
           /\ locals' = IF ok THEN locals ELSE [locals EXCEPT ![t] = NoLocals]
    /\ UNCHANGED <<hostVars, JAVA_STARTED, vm_active, ret>>

\* Faulty variant: a failure of cacheDirectoryListings is swallowed.
start_java_cache_swallowing(t) ==
    /\ pc[t] = "cache"
    /\ \E ok \in BOOLEAN :
           log' = Logged(t, Call("cacheDirectoryListings", ok, <<>>))
    /\ pc' = [pc EXCEPT ![t] = "set_started"]
    /\ UNCHANGED <<hostVars, JAVA_STARTED, vm_active, locals, ret>>

\* Lines 131-133: loci.common.Location.cacheDirectoryListings(True).
start_java_cache(t) ==
    /\ pc[t] = "cache"
    /\ \E ok \in BOOLEAN :
           /\ log' = LET l == Logged(t, Call("cacheDirectoryListings", ok, <<>>))
                     IN  IF ok THEN l ELSE Ended(l, t, "raised")
           /\ pc' = [pc EXCEPT ![t] = IF ok THEN "set_started" ELSE "idle"]
           /\ locals' = IF ok THEN locals ELSE [locals EXCEPT ![t] = NoLocals]
    /\ UNCHANGED <<hostVars, JAVA_STARTED, vm_active, ret>>

\* Lines 134-135: JAVA_STARTED = True, and the function returns.
start_java_set_started(t) ==
    /\ pc[t] = "set_started"
    /\ JAVA_STARTED' = TRUE
    /\ log' = Ended(Logged(t, Call("JAVA_STARTED", TRUE, <<>>)), t, "returned")
    /\ pc' = [pc EXCEPT ![t] = "idle"]
    /\ locals' = [locals EXCEPT ![t] = NoLocals]
    /\ UNCHANGED <<hostVars, vm_active, ret>>

(***************************************************************************)
(* stop_java                                                               *)
(***************************************************************************)
\* Lines 138-139: the function is entered and logs its message.
stop_java_enter(t) ==
    /\ pc[t] = "idle"
    /\ Begun < MaxCalls
    /\ log' = [log EXCEPT ![t] = Append(@, Invocation("stop_java", None))]
    /\ pc' = [pc EXCEPT ![t] = "kill_vm"]
    /\ UNCHANGED <<hostVars, JAVA_STARTED, vm_active, locals, ret>>

\* Faulty variant: kill_vm is called only when the bridge is active.
stop_java_kill_vm_if_active(t) ==
    /\ pc[t] = "kill_vm"
    /\ IF vm_active
       THEN \E ok \in BOOLEAN :
                /\ log' = Ended(Logged(t, Call("kill_vm", ok, <<>>)), t,
                                IF ok THEN "returned" ELSE "raised")
                /\ vm_active' = (vm_active /\ ~ok)
       ELSE log' = Ended(log, t, "returned") /\ UNCHANGED vm_active
    /\ pc' = [pc EXCEPT ![t] = "idle"]
    /\ UNCHANGED <<hostVars, JAVA_STARTED, locals, ret>>

\* Faulty variant: a successful kill_vm also clears JAVA_STARTED.
stop_java_kill_vm_clearing(t) ==
    /\ pc[t] = "kill_vm"
    /\ \E ok \in BOOLEAN :
           /\ log' = Ended(Logged(t, Call("kill_vm", ok, <<>>)), t,
                           IF ok THEN "returned" ELSE "raised")
           /\ vm_active' = (vm_active /\ ~ok)
           /\ JAVA_STARTED' = (JAVA_STARTED /\ ~ok)
    /\ pc' = [pc EXCEPT ![t] = "idle"]
    /\ UNCHANGED <<hostVars, locals, ret>>

\* Line 140: javabridge.kill_vm() returns or raises.
stop_java_kill_vm(t) ==
    /\ pc[t] = "kill_vm"
    /\ \E ok \in BOOLEAN :
           /\ log' = Ended(Logged(t, Call("kill_vm", ok, <<>>)), t,
                           IF ok THEN "returned" ELSE "raised")
           /\ vm_active' = (vm_active /\ ~ok)
    /\ pc' = [pc EXCEPT ![t] = "idle"]
    /\ UNCHANGED <<hostVars, JAVA_STARTED, locals, ret>>

(***************************************************************************)
(* Calls of the pure functions.                                            *)
(***************************************************************************)
\* Lines 58-78
call_find_logback_xml ==
    /\ ret = None
    /\ ret' = Some(find_logback_xml)
    /\ UNCHANGED <<hostVars, procVars>>

\* Lines 22-55: the list returned, and the number of find_jdk calls made.
call_get_jars ==
    /\ ret = None
    /\ ret' = <<get_jars, find_jdk_calls>>
    /\ UNCHANGED <<hostVars, procVars>>

(***************************************************************************)
(* Specifications.                                                         *)
(***************************************************************************)
start_java(t) ==
    \/ start_java_is_active(t)
    \/ start_java_attach_running(t)
    \/ start_java_build(t)
    \/ start_java_start_vm(t)
    \/ start_java_attach(t)
    \/ start_java_cache(t)
    \/ start_java_set_started(t)

stop_java(t) ==
    \/ stop_java_enter(t)
    \/ stop_java_kill_vm(t)

\* Every thread of the host may call start_java and stop_java at any time.
Next == \E t \in Threads : start_java(t) \/ stop_java(t)
Spec == Init /\ [][Next]_vars

\* A host whose only caller is thread t1.
NextSeq == start_java("t1") \/ stop_java("t1")
SpecSeq == Init /\ [][NextSeq]_vars

\* Thread t1 calling start_java on every host of InitArgs.
NextArgs == start_java("t1")
SpecArgs == InitArgs /\ [][NextArgs]_vars

\* find_logback_xml called on every host of InitLogback.
NextLogback == call_find_logback_xml
SpecLogback == InitLogback /\ [][NextLogback]_vars

\* get_jars called on every host of InitJars.
NextJars == call_get_jars
SpecJars == InitJars /\ [][NextJars]_vars

(***************************************************************************)
(* Vocabulary of the properties: what the log says.                        *)
(***************************************************************************)
\* The invocations begun, as pairs <<thread, index in its log>>.
Invocations == {<<t, i>> : t \in Threads, i \in 1..MaxCalls + 1} \cap
               {x \in Threads \X Nat : x[2] \in 1..Len(log[x[1]])}

Inv(x) == log[x[1]][x[2]]

\* How many calls of bridge function f a sequence of calls holds.
RECURSIVE CountCalls(_, _)
CountCalls(calls, f) ==
    IF calls = <<>>
    THEN 0
    ELSE (IF Head(calls).f = f THEN 1 ELSE 0) + CountCalls(Tail(calls), f)

\* How many calls of f the invocations of set X made.
RECURSIVE CallsIn(_, _)
CallsIn(X, f) ==
    IF X = {}
    THEN 0
    ELSE LET x == CHOOSE y \in X : TRUE
         IN  CountCalls(Inv(x).calls, f) + CallsIn(X \ {x}, f)

\* Some call of the run raised.
SomeCallRaised ==
    \E x \in Invocations : \E k \in 1..Len(Inv(x).calls) : ~Inv(x).calls[k].ok

\* A start_vm call has returned without failure.
StartVmReturned ==
    \E x \in Invocations : \E k \in 1..Len(Inv(x).calls) :
        Inv(x).calls[k].f = "start_vm" /\ Inv(x).calls[k].ok

\* Invocation x ran a whole cold start: start_vm, the attach of the starting
\* thread and cacheDirectoryListings returned, in this order.
ColdStartCompleted(x) ==
    LET c == Inv(x).calls
    IN  /\ Len(c) >= 3
        /\ c[1] = Call("start_vm", TRUE, c[1].a)
        /\ c[2] = Call("attach", TRUE, <<>>)
        /\ c[3] = Call("cacheDirectoryListings", TRUE, <<>>)

(***************************************************************************)
(* C1. Two threads calling start_java concurrently, the bridge inactive at *)
(* the beginning and no bridge call failing: at most one start_vm call is  *)
(* made, and exactly one once both calls have returned.                    *)
(* The code does not hold this: both threads can pass the activity check   *)
(* before either calls start_vm.                                           *)
(***************************************************************************)
TwoThreadsStartOnce ==
    /\ \A t \in Threads : Len(log[t]) = 1 /\ log[t][1].op = "start_java"
    /\ ~SomeCallRaised

C1_ExactlyOneStartVm ==
    TwoThreadsStartOnce =>
        /\ CallsIn(Invocations, "start_vm") <= 1
        /\ (\A t \in Threads : pc[t] = "idle") =>
               CallsIn(Invocations, "start_vm") = 1

(***************************************************************************)
(* C2. On a host with one calling thread, two start_java calls in sequence *)
(* of which the first found the bridge inactive and the second found it    *)
(* active make exactly one start_vm call and exactly two attach calls.     *)
(***************************************************************************)
\* The start_java invocations of thread t, in order.
StartJavaLog(t) == SelectSeq(log[t], LAMBDA r : r.op = "start_java")

ColdThenWarm(t, i) ==
    /\ i + 1 <= Len(StartJavaLog(t))
    /\ StartJavaLog(t)[i].active = Some(FALSE)
    /\ StartJavaLog(t)[i + 1].active = Some(TRUE)
    /\ StartJavaLog(t)[i + 1].result # "running"

C2_TwoCallsOneStartTwoAttach ==
    \A i \in 1..MaxCalls + 1 :
        ColdThenWarm("t1", i) =>
            LET c == StartJavaLog("t1")[i].calls \o StartJavaLog("t1")[i + 1].calls
            IN  CountCalls(c, "start_vm") = 1 /\ CountCalls(c, "attach") = 2

C2_Witness ==
    /\ ColdThenWarm("t1", 1)
    /\ StartJavaLog("t1")[1].result = "returned"
    /\ StartJavaLog("t1")[2].result = "returned"

(***************************************************************************)
(* C3. JAVA_STARTED is true only if a start_vm call made by start_java has *)
(* returned without failure; it is false in the initial state.             *)
(***************************************************************************)
C3_StartedOnlyAfterStartVm ==
    /\ JAVA_STARTED => StartVmReturned
    /\ Invocations = {} => ~JAVA_STARTED

C3_Witness == JAVA_STARTED /\ StartVmReturned

(***************************************************************************)
(* C4. Over any sequence of start_java and stop_java invocations of one    *)
(* thread in which no bridge call fails, start_vm is called at most once.  *)
(* The code does not hold this: after start, stop, the next start_java     *)
(* finds the bridge inactive and calls start_vm again.                     *)
(***************************************************************************)
C4_StartVmAtMostOnce ==
    ~SomeCallRaised => CallsIn(Invocations, "start_vm") <= 1

(***************************************************************************)
(* C5. In every state where JAVA_STARTED is true, some invocation has run  *)
(* the whole cold start before: its start_vm call, its attach of the       *)
(* starting thread and its cacheDirectoryListings call have all returned   *)
(* without failure; and the flag is written only by such an invocation.    *)
(***************************************************************************)
C5_ColdStartCompleteBeforeFlag ==
    /\ JAVA_STARTED => \E x \in Invocations : ColdStartCompleted(x)
    /\ \A x \in Invocations :
           CountCalls(Inv(x).calls, "JAVA_STARTED") > 0 => ColdStartCompleted(x)

\* The flag is true while another thread is inside start_java or stop_java.
C5_Witness ==
    /\ JAVA_STARTED
    /\ \E t \in Threads : pc[t] # "idle"

(***************************************************************************)
(* C6. Every invocation of stop_java calls kill_vm exactly once, whatever  *)
(* the state before it: when it has ended its calls are one kill_vm call,  *)
(* and until then it has made no call and the kill_vm call is enabled      *)
(* whatever JAVA_STARTED and the bridge's activity are.                    *)
(***************************************************************************)
C6_StopKillsExactlyOnce ==
    \A x \in Invocations :
        Inv(x).op = "stop_java" =>
            IF Inv(x).result = "running"
            THEN Inv(x).calls = <<>> /\ ENABLED stop_java_kill_vm(x[1])
            ELSE /\ Len(Inv(x).calls) = 1
                 /\ Inv(x).calls[1].f = "kill_vm"

\* stop_java has ended in a run where the runtime was never started, and
\* again after that (the runtime already stopped).
C6_Witness ==
    /\ ~JAVA_STARTED
    /\ CallsIn(Invocations, "start_vm") = 0
    /\ \E t \in Threads :
           /\ Len(log[t]) >= 2
           /\ \A i \in 1..2 :
                  log[t][i].op = "stop_java" /\ log[t][i].result = "returned"

(***************************************************************************)
(* Vocabulary of the get_jars properties, stated on the inputs.            *)
(***************************************************************************)
\* How many times character c occurs in string s.
Occurrences(s, c) == Cardinality({i \in 1..Len(s) : s[i] = c})

\* The strings of list l joined by character c: c.join(l).
RECURSIVE JoinWith(_, _)
JoinWith(l, c) ==
    IF l = <<>> THEN <<>>
    ELSE IF Len(l) = 1 THEN l[1]
    ELSE l[1] \o <<c>> \o JoinWith(Tail(l), c)

\* The number of CLASSPATH segments: none when the variable is unset.
EnvCount ==
    IF "CLASSPATH" \in DOMAIN environ
    THEN 1 + Occurrences(environ["CLASSPATH"], pathsep)
    ELSE 0

\* The positions of the directory listing that hold an archive.
ArchiveAt == {i \in 1..Len(listdir) : EndsWith(Lower(listdir[i]), dot_jar)}

\* The j-th archive position, in listing order.
KthArchive(j) ==
    CHOOSE i \in ArchiveAt : Cardinality({h \in ArchiveAt : h <= i}) = j

\* The bundled archives, in listing order.
Bundled ==
    [j \in 1..Cardinality(ArchiveAt) |-> join(prokaryote_dir, listdir[KthArchive(j)])]

IsToolsJar(e) == EndsWith(e, tools_jar_name)

\* In the properties below, \A x \in {e} names the value of e.

(***************************************************************************)
(* C7. For a CLASSPATH of n segments, get_jars returns a list whose first  *)
(* n entries are those segments in their order, followed by the            *)
(* bridge-required and the bundled archive entries, followed by at most    *)
(* one tools.jar entry, which is the last element when it is present.      *)
(***************************************************************************)
C7_EnvThenArchivesThenTools ==
    ret # None =>
        \A r \in {ret[1]} : \A n \in {EnvCount} : \A B \in {Bundled} :
            \A k \in {Len(r) - n - Len(JARS) - Len(B)} :
                /\ k \in {0, 1}
                /\ n > 0 =>
                       /\ JoinWith(SubSeq(r, 1, n), pathsep) = environ["CLASSPATH"]
                       /\ \A i \in 1..n : Occurrences(r[i], pathsep) = 0
                /\ \A i \in (n + 1)..(Len(r) - k) :
                       \/ \E j \in 1..Len(JARS) : r[i] = JARS[j]
                       \/ \E j \in 1..Len(B) : r[i] = B[j]
                /\ \A i \in 1..Len(r) : IsToolsJar(r[i]) => i = Len(r)
                /\ k = 1 <=> IsToolsJar(Last(r))

\* Three segments, one of them empty, and a tools.jar entry.
C7_Witness ==
    /\ ret # None
    /\ EnvCount = 3
    /\ \E i \in 1..3 : ret[1][i] = <<>>
    /\ IsToolsJar(Last(ret[1]))

(***************************************************************************)
(* C8. As claimed: after the CLASSPATH segments, the bundled archives of   *)
(* the directory scan come before the bridge's own archives.               *)
(***************************************************************************)
C8_BundledBeforeBridge ==
    ret # None =>
        \A r \in {ret[1]} : \A n \in {EnvCount} : \A B \in {Bundled} :
            /\ SubSeq(r, n + 1, n + Len(B)) = B
            /\ SubSeq(r, n + Len(B) + 1, n + Len(B) + Len(JARS)) = JARS

(***************************************************************************)
(* C8, amended. After the CLASSPATH segments come the bridge's own         *)
(* archives (javabridge.JARS, in its fixed order), and after them the      *)
(* bundled archives: the files of the directory listing whose name ends    *)
(* in .jar, case-insensitively, in directory-listing order.                *)
(***************************************************************************)
C8_BridgeBeforeBundled ==
    ret # None =>
        \A r \in {ret[1]} : \A n \in {EnvCount} : \A B \in {Bundled} :
            /\ SubSeq(r, n + 1, n + Len(JARS)) = JARS
            /\ SubSeq(r, n + Len(JARS) + 1, n + Len(JARS) + Len(B)) = B

\* A listing with an upper-case archive name before a lower-case one.
C8_Witness ==
    /\ ret # None
    /\ listdir = << <<"B", ".", "J", "A", "R">>, <<"a", ".", "j", "a", "r">> >>
    /\ EnvCount = 2

(***************************************************************************)
(* Vocabulary of the argument-vector properties.                           *)
(***************************************************************************)
\* The argument vectors passed to start_vm so far.
StartVmArgs ==
    {Inv(x).calls[1].a[1] : x \in {y \in Invocations :
        Len(Inv(y).calls) >= 1 /\ Inv(y).calls[1].f = "start_vm"}}

LogbackFlag == "-Dlogback.configurationFile="

\* The path p with every backslash replaced by a forward slash and a drive
\* prefix X: replaced by //localhost/X$.
Rewritten(p) ==
    LET q == [i \in 1..Len(p) |-> IF p[i] = "\\" THEN "/" ELSE p[i]]
    IN  IF p[2] = ":"
        THEN "//localhost/" \o p[1] \o "$" \o Str(SubSeq(q, 3, Len(q)))
        ELSE Str(q)

(***************************************************************************)
(* C9. On the Windows code path of a cold start, a found logging-config    *)
(* path is passed with every backslash replaced by a forward slash and a   *)
(* drive prefix X: replaced by //localhost/X$: C:\x\logback.xml becomes    *)
(* //localhost/C$/x/logback.xml, and a path without a drive letter gets    *)
(* only the separator rewrite.                                             *)
(***************************************************************************)
C9_WindowsRewrite ==
    \A args \in StartVmArgs :
        (IsWin /\ find_logback_xml # None) =>
            /\ args[3] = LogbackFlag \o Rewritten(find_logback_xml[1])
            /\ find_logback_xml[1] =
                   <<"C", ":", "\\", "x", "\\">> \o logback_xml =>
                   args[3] = LogbackFlag \o "//localhost/C$/x/logback.xml"
            /\ find_logback_xml[1] = <<"u", "\\">> \o logback_xml =>
                   args[3] = LogbackFlag \o "u/logback.xml"

\* Both shapes have been passed: the drive path of C:\x\java.py, and on
\* another host the path below the current directory.
C9_Witness ==
    /\ IsWin
    /\ find_logback_xml = Some(<<"C", ":", "\\", "x", "\\">> \o logback_xml)
    /\ StartVmArgs # {}

(***************************************************************************)
(* C10. As claimed: the rewriting is applied only on Windows in a process  *)
(* that is not frozen; on another platform, or in a frozen binary, the     *)
(* found path is passed unchanged.                                         *)
(***************************************************************************)
C10_RewriteOnlyWhenNotFrozen ==
    \A args \in StartVmArgs :
        find_logback_xml # None =>
            IF IsWin /\ ~frozen
            THEN args[3] = LogbackFlag \o Rewritten(find_logback_xml[1])
            ELSE args[3] = LogbackFlag \o Str(find_logback_xml[1])

(***************************************************************************)
(* C10, amended. The rewriting is applied only when the platform is        *)
(* Windows, in a frozen binary as in any other process; on any other       *)
(* platform the found path is passed unchanged.                            *)
(***************************************************************************)
C10_RewriteOnlyOnWindows ==
    \A args \in StartVmArgs :
        find_logback_xml # None =>
            /\ ~IsWin => args[3] = LogbackFlag \o Str(find_logback_xml[1])
            /\ (IsWin /\ frozen) =>
                   args[3] = LogbackFlag \o Rewritten(find_logback_xml[1])

\* A frozen Windows process has passed a rewritten path.
C10_Witness ==
    /\ IsWin /\ frozen
    /\ find_logback_xml # None
    /\ \E args \in StartVmArgs :
           args[3] # LogbackFlag \o Str(find_logback_xml[1])

(***************************************************************************)
(* C11. The argument vector passed to start_vm on a cold start is, in this *)
(* order: the loader flag and the preferences-factory flag, always; the    *)
(* logging-config flag if and only if find_logback_xml found a file; the   *)
(* headless flag if and only if the preference store reports headless      *)
(* mode; the JDWP agent flag if and only if CP_JDWP_PORT is set, holding   *)
(* address=127.0.0.1:<port>,server=y,suspend=n with the variable's value   *)
(* as the port; and nothing else.                                          *)
(***************************************************************************)
\* 1 when condition b holds, else 0.
One(b) == IF b THEN 1 ELSE 0

C11_ArgumentVector ==
    \A args \in StartVmArgs :
        \A found \in {find_logback_xml # None} :
        \A port \in {"CP_JDWP_PORT" \in DOMAIN environ} :
            /\ Len(args) = 2 + One(found) + One(awt_headless) + One(port)
            /\ args[1] = "-Dloci.bioformats.loaded=true"
            /\ args[2] = "-Djava.util.prefs.PreferencesFactory=org.cellprofiler.headlesspreferences.HeadlessPreferencesFactory"
            /\ found =>
                   args[3] \in {LogbackFlag \o Str(find_logback_xml[1]),
                                LogbackFlag \o Rewritten(find_logback_xml[1])}
            /\ awt_headless => args[3 + One(found)] = "-Djava.awt.headless=true"
            /\ port =>
                   /\ args[Len(args)] =
                          "-agentlib:jdwp=transport=dt_socket,address=127.0.0.1:"
                          \o Str(environ["CP_JDWP_PORT"]) \o ",server=y,suspend=n"
                   /\ environ["CP_JDWP_PORT"] = <<"5", "0", "0", "5">> =>
                          args[Len(args)] =
                              "-agentlib:jdwp=transport=dt_socket,address=127.0.0.1:5005,server=y,suspend=n"

\* A cold start has passed all five arguments.
C11_Witness ==
    /\ find_logback_xml # None
    /\ awt_headless
    /\ "CP_JDWP_PORT" \in DOMAIN environ
    /\ \E args \in StartVmArgs : Len(args) = 5

(***************************************************************************)
(* C12. JAVA_STARTED is monotonic: no step of start_java or stop_java sets *)
(* it back to false once it is true. In particular every step of stop_java *)
(* leaves JAVA_STARTED as it is, so after a start followed by a stop the   *)
(* flag is still true although the runtime has been killed.                *)
(***************************************************************************)
\* Thread t takes a step inside stop_java.
StopStep(t) == pc[t] = "kill_vm" \/ pc'[t] = "kill_vm"

C12_StartedNeverReset ==
    [][/\ JAVA_STARTED => JAVA_STARTED'
       /\ \A t \in Threads : StopStep(t) /\ pc'[t] # pc[t] =>
              JAVA_STARTED' = JAVA_STARTED]_vars

\* The flag is true, the runtime has been killed and the bridge is inactive.
C12_Witness ==
    /\ JAVA_STARTED
    /\ ~vm_active
    /\ \E x \in Invocations :
           /\ Inv(x).op = "stop_java"
           /\ Inv(x).calls = <<Call("kill_vm", TRUE, <<>>)>>

(***************************************************************************)
(* Vocabulary of the failure properties.                                   *)
(***************************************************************************)
\* The bridge calls the step adds to thread t's running invocation.
NewCalls(t) ==
    IF /\ Len(log[t]) > 0
       /\ Len(log'[t]) = Len(log[t])
       /\ Len(log'[t][Len(log[t])].calls) = Len(log[t][Len(log[t])].calls) + 1
    THEN <<Last(log'[t][Len(log[t])].calls)>>
    ELSE <<>>

\* The step is a call of bridge function f by thread t that raises.
Raises(t, f) ==
    NewCalls(t) # <<>> /\ NewCalls(t)[1].f = f /\ ~NewCalls(t)[1].ok

(***************************************************************************)
(* C13. If start_vm fails during a cold start, start_java propagates the   *)
(* failure at once: the failed start_vm call is the only bridge call of    *)
(* the invocation (no retry, no attach, no cacheDirectoryListings), the    *)
(* invocation ends raising, and the failing step leaves JAVA_STARTED as it *)
(* was.                                                                    *)
(***************************************************************************)
C13_StartVmFailurePropagates ==
    /\ [](\A x \in Invocations : \A k \in 1..Len(Inv(x).calls) :
              (Inv(x).calls[k].f = "start_vm" /\ ~Inv(x).calls[k].ok) =>
                  /\ Len(Inv(x).calls) = 1
                  /\ Inv(x).result = "raised"
                  /\ pc[x[1]] = "idle" \/ x[2] < Len(log[x[1]]))
    /\ [][\A t \in Threads :
              Raises(t, "start_vm") =>
                  JAVA_STARTED' = JAVA_STARTED /\ pc'[t] = "idle"]_vars

\* A start_vm call has failed while JAVA_STARTED was true from an earlier
\* cold start, and the flag is still true.
C13_Witness ==
    /\ JAVA_STARTED
    /\ \E x \in Invocations :
           /\ Len(Inv(x).calls) = 1
           /\ Inv(x).calls[1].f = "start_vm"
           /\ ~Inv(x).calls[1].ok
           /\ Inv(x).result = "raised"

(***************************************************************************)
(* C14. If, after start_vm has succeeded, the attach of the starting       *)
(* thread or the cacheDirectoryListings call fails, start_java fails to    *)
(* its caller without setting JAVA_STARTED and without calling kill_vm:    *)
(* the failed call is the last call of the invocation, and the failing     *)
(* step leaves JAVA_STARTED and the bridge's activity as they were, so a   *)
(* bridge that was active stays active.                                    *)
(***************************************************************************)
\* Invocation x called start_vm with success and then had call k fail.
FailedAfterStartVm(x, k) ==
    /\ k \in 2..Len(Inv(x).calls)
    /\ Inv(x).calls[1].f = "start_vm" /\ Inv(x).calls[1].ok
    /\ Inv(x).calls[k].f \in {"attach", "cacheDirectoryListings"}
    /\ ~Inv(x).calls[k].ok

C14_PostStartFailure ==
    /\ [](\A x \in Invocations : \A k \in 1..Len(Inv(x).calls) :
              FailedAfterStartVm(x, k) =>
                  /\ k = Len(Inv(x).calls)
                  /\ Inv(x).result = "raised"
                  /\ CountCalls(Inv(x).calls, "kill_vm") = 0
                  /\ CountCalls(Inv(x).calls, "JAVA_STARTED") = 0)
    /\ [][\A t \in Threads :
              (pc[t] \in {"attach", "cache"}
               /\ (Raises(t, "attach") \/ Raises(t, "cacheDirectoryListings"))) =>
                  /\ JAVA_STARTED' = JAVA_STARTED
                  /\ vm_active' = vm_active
                  /\ pc'[t] = "idle"]_vars

\* A cold start has failed at cacheDirectoryListings: the flag is false and
\* the bridge is active.
C14_Witness ==
    /\ ~JAVA_STARTED
    /\ vm_active
    /\ \A t \in Threads : pc[t] = "idle"
    /\ \E x \in Invocations : FailedAfterStartVm(x, 3)

(***************************************************************************)
(* C15. A start_java invocation that finds the bridge active makes exactly *)
(* one attach call and no start_vm or cacheDirectoryListings call, builds  *)
(* neither the argument vector nor the class path, and leaves JAVA_STARTED *)
(* as it was; it returns when the attach returns and fails, with the       *)
(* program state unchanged, when the attach fails.                         *)
(***************************************************************************)
\* Invocation x of start_java found the bridge active at line 92.
FoundActive(x) ==
    Inv(x).op = "start_java" /\ Inv(x).active = Some(TRUE)

C15_ActivePath ==
    /\ [](\A x \in Invocations : FoundActive(x) =>
              /\ CountCalls(Inv(x).calls, "attach") = Len(Inv(x).calls)
              /\ Len(Inv(x).calls) <= 1
              /\ Inv(x).result # "running" =>
                     /\ Len(Inv(x).calls) = 1
                     /\ Inv(x).result = "returned" <=> Inv(x).calls[1].ok
              /\ Inv(x).result = "running" =>
                     /\ Inv(x).calls = <<>>
                     /\ pc[x[1]] = "attach_running"
                     /\ locals[x[1]] = NoLocals)
    /\ [][\A t \in Threads : pc[t] = "attach_running" /\ pc'[t] # pc[t] =>
              /\ NewCalls(t) # <<>>
              /\ NewCalls(t)[1].f = "attach"
              /\ pc'[t] = "idle"
              /\ UNCHANGED <<hostVars, JAVA_STARTED, vm_active, locals>>]_vars

\* One invocation that found the bridge active has returned and another has
\* failed at its attach.
C15_Witness ==
    /\ \E x \in Invocations :
           FoundActive(x) /\ Inv(x).result = "returned"
    /\ \E x \in Invocations :
           FoundActive(x) /\ Inv(x).result = "raised"

(***************************************************************************)
(* C16. Whenever start_java returns without failure, the calling thread    *)
(* was attached to the bridge during that invocation: the invocation made  *)
(* an attach call that returned, on the active path and on the cold path   *)
(* alike.                                                                  *)
(***************************************************************************)
\* The attach calls of invocation x that returned.
AttachedIn(x) ==
    { k \in 1..Len(Inv(x).calls) :
          Inv(x).calls[k].f = "attach" /\ Inv(x).calls[k].ok }

C16_ReturnedMeansAttached ==
    \A x \in Invocations :
        (Inv(x).op = "start_java" /\ Inv(x).result = "returned") =>
            Cardinality(AttachedIn(x)) = 1

\* A cold start and a start that found the bridge active have both
\* returned.
C16_Witness ==
    /\ \E x \in Invocations :
           /\ Inv(x).op = "start_java" /\ Inv(x).result = "returned"
           /\ Inv(x).active = Some(FALSE)
           /\ AttachedIn(x) = {2}
    /\ \E x \in Invocations :
           /\ Inv(x).op = "start_java" /\ Inv(x).result = "returned"
           /\ Inv(x).active = Some(TRUE)
           /\ AttachedIn(x) = {1}

(***************************************************************************)
(* C17. get_jars appends a tools.jar entry, <jdk>\lib\tools.jar, if and    *)
(* only if the platform is Windows, the process is not frozen, and         *)
(* find_jdk returns a path.  When find_jdk returns None there, get_jars    *)
(* still returns the rest of the class path; on another platform or in a   *)
(* frozen binary find_jdk is not called at all.                            *)
(***************************************************************************)
C17_ToolsJarCondition ==
    ret # None =>
        \A r \in {ret[1]} : \A n \in {EnvCount} : \A B \in {Bundled} :
            \A rest \in {n + Len(JARS) + Len(B)} :
                /\ Len(r) \in {rest, rest + 1}
                /\ Len(r) = rest + 1 <=>
                       (IsWin /\ ~frozen /\ jdk_path # None)
                /\ Len(r) = rest + 1 =>
                       r[Len(r)] = jdk_path[1]
                                   \o <<"\\", "l", "i", "b", "\\">>
                                   \o tools_jar_name
                /\ \A i \in 1..rest : ~IsToolsJar(r[i])
                /\ ret[2] = (IF IsWin /\ ~frozen THEN 1 ELSE 0)

\* On Windows, not frozen, find_jdk returned None and get_jars returned the
\* environment's, the bridge's and the bundled entries.
C17_Witness ==
    /\ ret # None
    /\ IsWin /\ ~frozen /\ jdk_path = None
    /\ ret[2] = 1
    /\ EnvCount > 0
    /\ Len(Bundled) > 0
    /\ Len(ret[1]) = EnvCount + Len(JARS) + Len(Bundled)

(***************************************************************************)
(* C19. get_jars removes no duplicate and checks no entry for existence:   *)
(* its result has one entry for each CLASSPATH segment, each bridge        *)
(* archive and each bundled archive file, plus at most one for tools.jar,  *)
(* so an entry supplied by two sources occurs twice; with CLASSPATH unset  *)
(* the result begins with the bridge's archives.                           *)
(***************************************************************************)
\* How many times e occurs in list l.
Count(l, e) == Cardinality({i \in 1..Len(l) : l[i] = e})

C19_NoDeduplication ==
    ret # None =>
        \A r \in {ret[1]} : \A n \in {EnvCount} : \A B \in {Bundled} :
            \A k \in {Len(r) - n - Len(JARS) - Cardinality(ArchiveAt)} :
                /\ k \in {0, 1}
                /\ \A i \in 1..Len(r) : \A e \in {r[i]} :
                       Count(r, e) = Count(SubSeq(r, 1, n), e)
                                     + Count(JARS, e)
                                     + Count(B, e)
                                     + Count(SubSeq(r, Len(r) - k + 1, Len(r)), e)
                /\ \A j \in 1..Len(JARS) :
                       Count(r, JARS[j]) >= 1 + Count(SubSeq(r, 1, n), JARS[j])
                /\ "CLASSPATH" \notin DOMAIN environ =>
                       /\ n = 0
                       /\ SubSeq(r, 1, Len(JARS)) = JARS
                       /\ Len(r) = Len(JARS) + Len(B) + k

\* CLASSPATH names one of the bridge's archives, the listing holds the same
\* file name twice, no file exists on the host, and the result holds both
\* entries twice.
C19_Witness ==
    /\ ret # None
    /\ isfile = {}
    /\ EnvCount = 1
    /\ environ["CLASSPATH"] = JARS[2]
    /\ Count(ret[1], JARS[2]) = 2
    /\ Len(listdir) = 2 /\ listdir[1] = listdir[2]
    /\ Count(ret[1], join(prokaryote_dir, listdir[1])) = 2

(***************************************************************************)
(* C18. find_logback_xml probes three candidates in a fixed order:         *)
(* logback.xml in the current directory, in the directory of this module,  *)
(* and in java/src/main/resources below the directory three levels above   *)
(* the module file.  It returns the first candidate that is a file, even   *)
(* when later candidates are files too, returns None when none of the      *)
(* three is a file, and changes no state.                                  *)
(***************************************************************************)
\* The three candidates, in order, written out for each module location.
Candidates ==
    CASE Str(module_file) = "C:\\x\\java.py" ->
             << ".\\logback.xml",
                "C:\\x\\logback.xml",
                "C:\\java\\src\\main\\resources\\logback.xml" >>
      [] Str(module_file) = "u\\java.py" ->
             << ".\\logback.xml",
                "u\\logback.xml",
                "java\\src\\main\\resources\\logback.xml" >>
      [] Str(module_file) = "C:\\a\\b\\c\\java.py" ->
             << ".\\logback.xml",
                "C:\\a\\b\\c\\logback.xml",
                "C:\\a\\java\\src\\main\\resources\\logback.xml" >>
      [] Str(module_file) = "/x/java.py" ->
             << "./logback.xml",
                "/x/logback.xml",
                "/java/src/main/resources/logback.xml" >>
      [] Str(module_file) = "u:/java.py" ->
             << "./logback.xml",
                "u:/logback.xml",
                "java/src/main/resources/logback.xml" >>
      [] Str(module_file) = "/a/b/c/java.py" ->
             << "./logback.xml",
                "/a/b/c/logback.xml",
                "/a/java/src/main/resources/logback.xml" >>

\* The files of the host, as TLA+ strings.
Files == {Str(f) : f \in isfile}

C18_FirstExistingCandidate ==
    /\ [](ret # None =>
              \A r \in {ret[1]} : \A E \in {Candidates} : \A F \in {Files} :
                  /\ (\A i \in 1..3 : E[i] \notin F) => r = None
                  /\ \A i \in 1..3 :
                         (E[i] \in F /\ \A j \in 1..(i - 1) : E[j] \notin F) =>
                             r # None /\ Str(r[1]) = E[i])
    /\ [][UNCHANGED <<hostVars, procVars>>]_vars

\* The second and the third candidate are files, the first is not, the
\* module lies three directories deep, and the second has been returned.
C18_Witness ==
    /\ ret # None
    /\ module_file \in DeepModuleFiles(platform)
    /\ Files = {Candidates[2], Candidates[3]}
    /\ ret[1] = Some(target(2))

====
